---- MODULE Spec2Model ----
(***************************************************************************)
(* A model of perma-capture's account views (web/main/views.py) and of the *)
(* test fixtures of web/conftest.py: the password-reset view, the          *)
(* token-reset endpoint, the session-aware test client, the query-count    *)
(* assertion, the sign-up flow and the account view.                       *)
(***************************************************************************)
EXTENDS Integers, Sequences, FiniteSets, TLC

VARIABLES
    users,        \* the User table: email -> row, Absent where no user has it
    mailoutbox,   \* django.core.mail.outbox: the sequence of messages sent
    pwReq,        \* the last password-reset request: method, email, the row it met
    pwSent,       \* the messages that request sent
    pwReached,    \* whether that request reached the wrapped PasswordResetView
    pwResponse,   \* the final response of that request (redirects followed)
    pwSeen,       \* account state -> final response, of every POST made so far
    tokens,       \* the Token table: rows of user and key
    tokLast,      \* the last token-reset request handled alone, and its response
    tokReqs,      \* the token-reset requests in flight, one per worker
    tokLastResp,  \* user -> the token of the response that user received last
    cookie,       \* the value of the test client's session cookie, or NoCookie
    sessions,     \* the session store: rows of session key and logged-in user
    nextSession,  \* the number of session keys created so far
    cliLast,      \* the client's last request, and how it was handled
    cliPrev,      \* the client's request before that
    qPc,          \* where the test is: before, inside or after the with block
    qDb,          \* the connection assert_num_queries watches
    qExpected,    \* expected_counts: the keyword arguments of the assertion
    issued,       \* every statement the block executed, with its connection
    captured,     \* context.captured_queries
    qOutcome,     \* what leaving the block did: pass, or pytest.fail(msg)
    suSession,    \* the reset token the confirm view keeps in the client's session
    suVisited,    \* the addresses whose confirmation link has been visited
    suLast,       \* the last request of the sign-up flow, and its response
    profiles,     \* the User table by user: email, first_name, last_name
    acLast        \* the last request to the account view, and its response

dbVars == <<users, mailoutbox>>
pwVars == <<pwReq, pwSent, pwReached, pwResponse, pwSeen>>
tokVars == <<tokens, tokLast, tokReqs, tokLastResp>>

cliVars == <<cookie, sessions, nextSession, cliLast, cliPrev>>

qVars == <<qPc, qDb, qExpected, issued, captured, qOutcome>>

suVars == <<suSession, suVisited, suLast>>

acVars == <<profiles, acLast>>

vars == <<dbVars, pwVars, tokVars, cliVars, qVars, suVars, acVars>>

\* what a password-reset request, a token-reset request, a call of the
\* test client, a step of a query-count assertion and a request of the
\* sign-up flow leave alone
pwFrame == <<tokVars, cliVars, qVars, suVars, acVars>>
tokFrame == <<dbVars, pwVars, cliVars, qVars, suVars, acVars>>
cliFrame == <<dbVars, pwVars, tokVars, qVars, suVars, acVars>>
qFrame == <<dbVars, pwVars, tokVars, cliVars, suVars, acVars>>
suFrame == <<pwVars, tokVars, cliVars, qVars, acVars>>
\* what a request to the account view leaves alone
acFrame == <<dbVars, pwVars, tokVars, cliVars, qVars, suVars>>

\* the row User.objects.get finds for an address no user has: None
Absent == [exists |-> FALSE, is_active |-> FALSE, email_confirmed |-> FALSE, password |-> ""]
\* the token of a confirmation or password-reset link: the user and the
\* password the token generator hashed
NoToken == [email |-> "", password |-> ""]
NoRequest == [method |-> "none", email |-> "", user |-> Absent]
NoResponse == [status |-> 0, body |-> "", location |-> ""]

(***************************************************************************)
(* Password reset: views.py reset_password                                 *)
(***************************************************************************)

\* bound on the length of the outbox
MaxMail == 3

Emails == {"user0@example.com", "user1@example.com", "user2@example.com", "nope@nope.com"}
\* what a client may submit as email: an address, or text that is no address
Malformed == "not-an-address"
Submitted == Emails \cup {Malformed}

\* the rows UserFactory, UnconfirmedUserFactory and DeactivatedUserFactory
\* build, with the keyword overrides a factory call accepts
UserFactory ==
    [exists : {TRUE}, is_active : BOOLEAN, email_confirmed : BOOLEAN, password : {"pass"}]

\* User.objects.get(email=...) with DoesNotExist mapped to None
GetUser(table, email) ==
    IF email \in DOMAIN table THEN table[email] ELSE Absent

\* default_token_generator.make_token(user)
make_token(table, email) == [email |-> email, password |-> GetUser(table, email).password]

\* the message User.send_confirmation_email sends: it carries the link that
\* confirms the address
send_confirmation_email(table, email) ==
    [subject |-> "Please confirm your email", to |-> email,
     token |-> make_token(table, email)]

\* the messages PasswordResetForm.save sends: one password-reset message to
\* the active user with that address, none otherwise
PasswordResetFormSave(table, email) ==
    LET u == GetUser(table, email)
    IN  IF u.exists /\ u.is_active
        THEN << [subject |-> "Password Reset", to |-> email,
                 token |-> make_token(table, email)] >>
        ELSE << >>

success_url == "/password_reset/done/"

Redirect(url) == [status |-> 302, body |-> "", location |-> url]
Page(name) == [status |-> 200, body |-> name, location |-> ""]

\* OurPasswordResetView.as_view(form_class=PasswordResetForm)(request):
\* GET renders the form, a POST whose form is valid saves the form (sending
\* the mail) and redirects to success_url, an invalid POST re-renders the form
OurPasswordResetView(table, method, email) ==
    IF method = "POST"
    THEN IF email # Malformed
         THEN [response |-> Redirect(success_url),
               sent |-> PasswordResetFormSave(table, email), reached |-> TRUE]
         ELSE [response |-> Page("password_reset_form_errors"),
               sent |-> << >>, reached |-> TRUE]
    ELSE [response |-> Page("password_reset_form"), sent |-> << >>, reached |-> TRUE]

\* reset_password with the early return of the unconfirmed branch left out
reset_password_no_return(table, method, email) ==
    LET target_user == IF method = "POST" THEN GetUser(table, email) ELSE Absent
        inner == OurPasswordResetView(table, method, email)
    IN  IF target_user.exists /\ ~target_user.email_confirmed
        THEN [inner EXCEPT !.sent = << send_confirmation_email(table, email) >> \o @]
        ELSE inner

\* reset_password answering the unconfirmed branch with a page of its own
reset_password_own_page(table, method, email) ==
    LET target_user == IF method = "POST" THEN GetUser(table, email) ELSE Absent
    IN  IF target_user.exists /\ ~target_user.email_confirmed
        THEN [response |-> Page("confirmation_sent"),
              sent |-> << send_confirmation_email(table, email) >>, reached |-> FALSE]
        ELSE OurPasswordResetView(table, method, email)

\* the view reset_password: what it answers, what it sends, and whether it
\* reached the wrapped view
reset_password(table, method, email) ==
    LET target_user == IF method = "POST" THEN GetUser(table, email) ELSE Absent
    IN  IF target_user.exists /\ ~target_user.email_confirmed
        THEN [response |-> Redirect(success_url),
              sent |-> << send_confirmation_email(table, email) >>, reached |-> FALSE]
        ELSE OurPasswordResetView(table, method, email)

\* the test client's follow=True: a redirect is followed by a GET of its
\* location; success_url is served by Django's PasswordResetDoneView
Follow(response) ==
    IF response.status = 302 /\ response.location = success_url
    THEN Page("password_reset_done")
    ELSE response

\* the account state a submitted email is in
AccountState(table, email) ==
    LET u == GetUser(table, email)
    IN  IF ~u.exists THEN "nonexistent"
        ELSE IF ~u.is_active THEN "deactivated"
        ELSE IF ~u.email_confirmed THEN "unconfirmed"
        ELSE "confirmed"

\* client.get / client.post(reverse('password_reset'), {"email": email}, follow=True)
ResetPasswordRequest(method, email) ==
    LET r == reset_password(users, method, email)
    IN  /\ Len(mailoutbox) + Len(r.sent) <= MaxMail
        /\ mailoutbox' = mailoutbox \o r.sent
        /\ pwReq' = [method |-> method, email |-> email, user |-> GetUser(users, email)]
        /\ pwSent' = r.sent
        /\ pwReached' = r.reached
        /\ pwResponse' = Follow(r.response)
        /\ pwSeen' = IF method = "POST" /\ email # Malformed
                     THEN pwSeen \cup {[state |-> AccountState(users, email),
                                        response |-> Follow(r.response)]}
                     ELSE pwSeen
        /\ UNCHANGED users
        /\ UNCHANGED pwFrame

PwInit ==
    /\ users \in [Emails -> UserFactory \cup {Absent}]
    /\ users["nope@nope.com"] = Absent
    /\ mailoutbox = << >>
    /\ pwReq = NoRequest
    /\ pwSent = << >>
    /\ pwReached = FALSE
    /\ pwResponse = NoResponse
    /\ pwSeen = {}

\* the database and the outbox of a run that uses neither
DbIdle ==
    /\ users = [e \in Emails |-> Absent]
    /\ mailoutbox = << >>

\* the password-reset state of a run that makes no password-reset request
PwIdle ==
    /\ pwReq = NoRequest
    /\ pwSent = << >>
    /\ pwReached = FALSE
    /\ pwResponse = NoResponse
    /\ pwSeen = {}

PwNext == \E method \in {"GET", "POST"}, email \in Submitted :
              ResetPasswordRequest(method, email)

\* the last request was a POST of a well-formed address
PwPosted == pwReq.method = "POST" /\ pwReq.email # Malformed

(***************************************************************************)
(* Token reset: views.py reset_token                                       *)
(***************************************************************************)

\* bound on the number of distinct token keys
NumKeys == 4
\* bound on the number of workers handling token-reset requests at once
NumWorkers == 2

TokUsers == {"user0", "user1"}
\* request.user of a request that carries no credentials
Anonymous == "AnonymousUser"
Keys == 1 .. NumKeys
NoKey == 0

\* the rows of the Token table that belong to user
TokensOf(table, user) == {t \in table : t.user = user}
\* user.auth_token.key
KeyOf(table, user) ==
    IF TokensOf(table, user) = {} THEN NoKey
    ELSE (CHOOSE t \in TokensOf(table, user) : TRUE).key
\* the keys Token.generate_key may return: a key no row of the table holds
FreshKeys(table) == Keys \ {t.key : t \in table}

\* User.get_new_token: the user's row is replaced by a row with a new key,
\* in one step; the new row is returned
get_new_token(table, user, k) ==
    [table |-> (table \ TokensOf(table, user)) \cup {[user |-> user, key |-> k]},
     token |-> [user |-> user, key |-> k]]

\* the dispatch of @api_view(['POST']) as the perms_test table states it
\* allowing every method
ApiViewAnyMethod(method, user) ==
    IF user = Anonymous THEN 401 ELSE 200

\* what @api_view(['POST']) answers before the view's body runs, as the
\* perms_test table states it: 401 without credentials, 405 for a method
\* other than POST, and otherwise the body runs (200)
ApiView(method, user) ==
    IF user = Anonymous THEN 401
    ELSE IF method # "POST" THEN 405
    ELSE 200

\* reset_token answering with the key read before get_new_token ran
reset_token_stale(table, user, k) ==
    [table |-> get_new_token(table, user, k).table,
     response |-> [status |-> 200, token |-> KeyOf(table, user)]]

\* the body of reset_token: token = request.user.get_new_token(), and the
\* response that carries token.key
reset_token(table, user, k) ==
    LET new == get_new_token(table, user, k)
    IN  [table |-> new.table,
         response |-> [status |-> 200, token |-> new.token.key]]

NoTokRequest ==
    [method |-> "none", user |-> Anonymous, before |-> {},
     response |-> [status |-> 0, token |-> NoKey]]

\* client.get / client.post(reverse('token_reset'), as_user=user), handled
\* from start to end with no other request in between
ResetTokenRequest(method, user) ==
    /\ IF ApiView(method, user) = 200
       THEN \E k \in FreshKeys(tokens) :
              LET r == reset_token(tokens, user, k)
              IN  /\ tokens' = r.table
                  /\ tokLast' = [method |-> method, user |-> user,
                                 before |-> tokens, response |-> r.response]
       ELSE /\ tokens' = tokens
            /\ tokLast' = [method |-> method, user |-> user, before |-> tokens,
                           response |-> [status |-> ApiView(method, user),
                                         token |-> NoKey]]
    /\ UNCHANGED <<tokReqs, tokLastResp, tokFrame>>

IdleWorker == [pc |-> "idle", user |-> Anonymous, status |-> 0, token |-> NoKey]

\* a worker takes a request up to the start of the view's body
TokBegin(w, method, user) ==
    /\ tokReqs[w].pc = "idle"
    /\ tokReqs' = [tokReqs EXCEPT ![w] =
           IF ApiView(method, user) = 200
           THEN [pc |-> "handler", user |-> user, status |-> 0, token |-> NoKey]
           ELSE [pc |-> "done", user |-> user,
                 status |-> ApiView(method, user), token |-> NoKey]]
    /\ UNCHANGED <<tokens, tokLast, tokLastResp, tokFrame>>

\* views.py line 189: token = request.user.get_new_token()
TokCall(w) ==
    /\ tokReqs[w].pc = "handler"
    /\ \E k \in FreshKeys(tokens) :
         LET r == reset_token(tokens, tokReqs[w].user, k)
         IN  /\ tokens' = r.table
             /\ tokReqs' = [tokReqs EXCEPT ![w].pc = "respond",
                                           ![w].token = r.response.token]
    /\ UNCHANGED <<tokLast, tokLastResp, tokFrame>>

\* views.py lines 190-192: the response leaves the worker
TokRespond(w) ==
    /\ tokReqs[w].pc = "respond"
    /\ tokReqs' = [tokReqs EXCEPT ![w].pc = "done", ![w].status = 200]
    /\ tokLastResp' = [tokLastResp EXCEPT ![tokReqs[w].user] = tokReqs[w].token]
    /\ UNCHANGED <<tokens, tokLast, tokFrame>>

\* the worker is free for the next request
TokClose(w) ==
    /\ tokReqs[w].pc = "done"
    /\ tokReqs' = [tokReqs EXCEPT ![w] = IdleWorker]
    /\ UNCHANGED <<tokens, tokLast, tokLastResp, tokFrame>>

\* every user holds one token, and no two users share a key
TokInit ==
    /\ tokens \in SUBSET [user : TokUsers, key : Keys]
    /\ \A u \in TokUsers : Cardinality(TokensOf(tokens, u)) = 1
    /\ \A s, t \in tokens : s.key = t.key => s = t
    /\ tokLast = NoTokRequest
    /\ tokReqs = [w \in 1 .. NumWorkers |-> IdleWorker]
    /\ tokLastResp = [u \in TokUsers |-> NoKey]

\* the token state of a run that makes no token-reset request
TokIdle ==
    /\ tokens = {}
    /\ tokLast = NoTokRequest
    /\ tokReqs = [w \in 1 .. NumWorkers |-> IdleWorker]
    /\ tokLastResp = [u \in TokUsers |-> NoKey]

TokNext ==
    \E method \in {"GET", "POST"}, user \in TokUsers \cup {Anonymous} :
        ResetTokenRequest(method, user)

TokConcNext ==
    \E w \in 1 .. NumWorkers :
        \/ \E method \in {"GET", "POST"}, user \in TokUsers \cup {Anonymous} :
               TokBegin(w, method, user)
        \/ TokCall(w)
        \/ TokRespond(w)
        \/ TokClose(w)

(***************************************************************************)
(* The session-aware test client: conftest.py client / UserClient          *)
(***************************************************************************)

\* bound on the number of session keys the store creates
MaxSessions == 4

CliUsers == {"A", "B", "C"}
\* as_user=None, and the identity of a request that carries no live session
NoUser == "None"
NoCookie == 0
\* no Morsel object
NoMorsel == 0

\* the client's cookie jar during a call: jar.ref is the Morsel object stored
\* under session_key (NoMorsel when there is none), jar.heap the value of
\* each Morsel object
JarOf(value) ==
    IF value = NoCookie THEN [ref |-> NoMorsel, heap |-> << >>]
    ELSE [ref |-> 1, heap |-> << value >>]
\* the value of the session cookie in a jar
ValueOf(jar) == IF jar.ref = NoMorsel THEN NoCookie ELSE jar.heap[jar.ref]

\* self.cookies.get(session_key): the Morsel object itself, or None
CookiesGet(jar) == jar.ref

\* self.cookies[session_key] = <a string>: SimpleCookie sets the value of
\* the Morsel already stored under the key, and stores a new Morsel only
\* when there is none
CookiesSetValue(jar, value) ==
    IF jar.ref = NoMorsel
    THEN [ref |-> Len(jar.heap) + 1, heap |-> Append(jar.heap, value)]
    ELSE [jar EXCEPT !.heap[jar.ref] = value]

\* self.cookies[session_key] = previous_session: a Morsel is stored as it is
CookiesSetMorsel(jar, morsel) == [jar EXCEPT !.ref = morsel]

\* self.cookies.pop(session_key)
CookiesPop(jar) == [jar EXCEPT !.ref = NoMorsel]

\* the user a session key is logged in as
SessionUser(store, key) ==
    IF \E r \in store : r.key = key
    THEN (CHOOSE r \in store : r.key = key).user
    ELSE NoUser

\* self.force_login(user): a session of the same user is kept; any other
\* session of the cookie is dropped from the store and a session with a new
\* key is created for user; the cookie is set to the session's key
force_login(jar, store, next, user) ==
    LET old == ValueOf(jar)
    IN  IF old # NoCookie /\ SessionUser(store, old) = user
        THEN [jar |-> CookiesSetValue(jar, old), store |-> store, next |-> next]
        ELSE [jar |-> CookiesSetValue(jar, next + 1),
              store |-> {r \in store : r.key # old}
                            \cup {[key |-> next + 1, user |-> user]},
              next |-> next + 1]

\* UserClient.request(as_user=...): the jar, the store and the identity the
\* request is handled as
UserClientRequest(jar, store, next, as_user) ==
    IF as_user # NoUser
    THEN LET previous_session == CookiesGet(jar)
             in == force_login(jar, store, next, as_user)
         IN  [jar |-> IF previous_session # NoMorsel
                      THEN CookiesSetMorsel(in.jar, previous_session)
                      ELSE CookiesPop(in.jar),
              store |-> in.store, next |-> in.next,
              handled_as |-> SessionUser(in.store, ValueOf(in.jar))]
    ELSE [jar |-> jar, store |-> store, next |-> next,
          handled_as |-> SessionUser(store, ValueOf(jar))]

NoCliRequest ==
    [as_user |-> NoUser, made |-> FALSE, raised |-> FALSE, handled_as |-> NoUser,
     cookie_before |-> NoCookie, identity_before |-> NoUser]

\* client.get / client.post(url, as_user=as_user); the view returns a
\* response or raises, and touches no session
ClientRequest(as_user, raised) ==
    LET r == UserClientRequest(JarOf(cookie), sessions, nextSession, as_user)
    IN  /\ r.next <= MaxSessions
        /\ cookie' = ValueOf(r.jar)
        /\ sessions' = r.store
        /\ nextSession' = r.next
        /\ cliLast' = [as_user |-> as_user, made |-> TRUE, raised |-> raised,
                       handled_as |-> r.handled_as,
                       cookie_before |-> cookie,
                       identity_before |-> SessionUser(sessions, cookie)]
        /\ cliPrev' = cliLast
        /\ UNCHANGED cliFrame

\* client.force_login(user), called by a test itself
ClientForceLogin(user) ==
    LET r == force_login(JarOf(cookie), sessions, nextSession, user)
    IN  /\ r.next <= MaxSessions
        /\ cookie' = ValueOf(r.jar)
        /\ sessions' = r.store
        /\ nextSession' = r.next
        /\ cliLast' = NoCliRequest
        /\ cliPrev' = NoCliRequest
        /\ UNCHANGED cliFrame

\* client.logout(): the session is dropped and the jar emptied
ClientLogout ==
    /\ cookie # NoCookie
    /\ cookie' = NoCookie
    /\ sessions' = {r \in sessions : r.key # cookie}
    /\ cliLast' = NoCliRequest
    /\ cliPrev' = NoCliRequest
    /\ UNCHANGED nextSession
    /\ UNCHANGED cliFrame

\* the client fixture: a new client, with an empty jar
CliInit ==
    /\ cookie = NoCookie
    /\ sessions = {}
    /\ nextSession = 0
    /\ cliLast = NoCliRequest
    /\ cliPrev = NoCliRequest

CliNext ==
    \/ \E as_user \in CliUsers \cup {NoUser}, raised \in BOOLEAN :
           ClientRequest(as_user, raised)
    \/ \E user \in CliUsers : ClientForceLogin(user)
    \/ ClientLogout

(***************************************************************************)
(* The query-count assertion: conftest.py assert_num_queries               *)
(***************************************************************************)

\* bound on the number of statements a block executes
MaxQueries == 3
\* bound on the counts an assertion names
MaxCount == 2

Connections == {"default", "replica"}

\* SQL text, as sequences of characters
SqlSelect == <<"S", "E", "L", "E", "C", "T", " ", "1">>
SqlSelectLower == <<"s", "e", "l", "e", "c", "t", " ", "1">>
SqlUpdate == <<"U", "P", "D", "A", "T", "E", " ", "t">>
SqlInsert == <<"I", "N", "S", "E", "R", "T", " ", "t">>
SqlSavepoint == <<"S", "A", "V", "E", "P", "O", "I", "N", "T", " ", "s">>
SqlRelease == <<"R", "E", "L", "E", "A", "S", "E", " ", "s">>
SqlSet == <<"S", "E", "T", " ", "x">>
SqlShow == <<"S", "H", "O", "W", " ", "x">>
Statements ==
    {SqlSelect, SqlSelectLower, SqlUpdate, SqlInsert,
     SqlSavepoint, SqlRelease, SqlSet, SqlShow}

KwSelect == <<"s", "e", "l", "e", "c", "t">>
KwUpdate == <<"u", "p", "d", "a", "t", "e">>
\* ('savepoint', 'release', 'set', 'show')
Uncounted ==
    { <<"s", "a", "v", "e", "p", "o", "i", "n", "t">>,
      <<"r", "e", "l", "e", "a", "s", "e">>,
      <<"s", "e", "t">>,
      <<"s", "h", "o", "w">> }

\* str.lower, one character at a time
LowerChar(c) ==
    CASE c = "A" -> "a" [] c = "C" -> "c" [] c = "D" -> "d" [] c = "E" -> "e"
      [] c = "H" -> "h" [] c = "I" -> "i" [] c = "L" -> "l" [] c = "N" -> "n"
      [] c = "O" -> "o" [] c = "P" -> "p" [] c = "R" -> "r" [] c = "S" -> "s"
      [] c = "T" -> "t" [] c = "U" -> "u" [] c = "V" -> "v" [] c = "W" -> "w"
      [] OTHER -> c
Lower(str) == [i \in 1 .. Len(str) |-> LowerChar(str[i])]

\* sql.split(" ", 1)[0]: the text before the first space
FirstWord(sql) ==
    IF \E i \in 1 .. Len(sql) : sql[i] = " "
    THEN SubSeq(sql, 1, (CHOOSE i \in 1 .. Len(sql) :
                            sql[i] = " " /\ \A j \in 1 .. i - 1 : sql[j] # " ") - 1)
    ELSE sql

\* query_type = q['sql'].split(" ", 1)[0].lower()
query_type(sql) == Lower(FirstWord(sql))

\* defaultdict(int), before any key is counted
EmptyCounts == [t \in {} |-> 0]

\* the loop over context.captured_queries: query_counts, a defaultdict(int)
\* that holds a key only for the types it has counted
RECURSIVE QueryCounts(_)
QueryCounts(queries) ==
    IF queries = << >> THEN EmptyCounts
    ELSE LET counts == QueryCounts(SubSeq(queries, 1, Len(queries) - 1))
             type == query_type(queries[Len(queries)])
         IN  IF type \in Uncounted THEN counts
             ELSE IF type \in DOMAIN counts
                  THEN [counts EXCEPT ![type] = @ + 1]
                  ELSE [t \in DOMAIN counts \cup {type} |->
                           IF t = type THEN 1 ELSE counts[t]]

\* the check on leaving the block: expected_counts != query_counts fails
\* the test with a message that holds both dicts
CheckCounts(expected, queries) ==
    LET query_counts == QueryCounts(queries)
    IN  IF expected # query_counts
        THEN [passed |-> FALSE,
              msg |-> [text |-> "Unexpected queries", expected |-> expected,
                       got |-> query_counts]]
        ELSE [passed |-> TRUE,
              msg |-> [text |-> "", expected |-> EmptyCounts, got |-> EmptyCounts]]

NoOutcome ==
    [passed |-> FALSE, msg |-> [text |-> "", expected |-> EmptyCounts, got |-> EmptyCounts]]

\* the keyword arguments an assertion may be given
ExpectedCounts ==
    UNION {[keys -> 0 .. MaxCount] : keys \in SUBSET {KwSelect, KwUpdate}}

\* with assert_num_queries(db=db, **expected): the block is entered
QEnter(db, expected) ==
    /\ qPc = "before"
    /\ qPc' = "inside"
    /\ qDb' = db
    /\ qExpected' = expected
    /\ captured' = << >>
    /\ UNCHANGED <<issued, qOutcome>>
    /\ UNCHANGED qFrame

\* the block executes a statement on a connection; CaptureQueriesContext
\* records the statements of the watched connection
QExecute(conn, sql) ==
    /\ qPc = "inside"
    /\ Len(issued) < MaxQueries
    /\ issued' = Append(issued, [conn |-> conn, sql |-> sql])
    /\ captured' = IF conn = qDb THEN Append(captured, sql) ELSE captured
    /\ UNCHANGED <<qPc, qDb, qExpected, qOutcome>>
    /\ UNCHANGED qFrame

\* the block is left without an exception: the counts are compared
QExit ==
    /\ qPc = "inside"
    /\ qPc' = "after"
    /\ qOutcome' = CheckCounts(qExpected, captured)
    /\ UNCHANGED <<qDb, qExpected, issued, captured>>
    /\ UNCHANGED qFrame

QInit ==
    /\ qPc = "before"
    /\ qDb = "default"
    /\ qExpected = EmptyCounts
    /\ issued = << >>
    /\ captured = << >>
    /\ qOutcome = NoOutcome

QNext ==
    \/ \E db \in Connections, expected \in ExpectedCounts : QEnter(db, expected)
    \/ \E conn \in Connections, sql \in Statements : QExecute(conn, sql)
    \/ QExit

(***************************************************************************)
(* Sign-up: views.py sign_up, and the flow of its doctest                  *)
(***************************************************************************)

SuEmails == {"user@example.edu", "other@example.edu"}
Passwords == {"anewpass", "pass"}
\* the token of a confirmation URL whose last segment was replaced
WrongToken == [email |-> "wrong", password |-> ""]

\* SignupForm.is_valid: the address is well-formed and no user has it
SignupFormIsValid(table, email) ==
    email # Malformed /\ ~GetUser(table, email).exists

\* the row SignupForm.save creates: unconfirmed, with no usable password
NewUser == [exists |-> TRUE, is_active |-> TRUE, email_confirmed |-> FALSE, password |-> ""]

\* SignupForm.save: the user is created and sent the confirmation email
SignupFormSave(table, email) ==
    LET saved == [table EXCEPT ![email] = NewUser]
    IN  [users |-> saved, sent |-> << send_confirmation_email(saved, email) >>]

\* sign_up answering a valid POST without saving the form
sign_up_no_save(table, method, email) ==
    IF method = "POST" /\ SignupFormIsValid(table, email)
    THEN [users |-> table, sent |-> << >>,
          response |-> Page("registration/sign_up_success.html")]
    ELSE [users |-> table, sent |-> << >>, response |-> Page("registration/sign_up.html")]

\* the view sign_up: a valid POST saves the form and renders the success
\* page; a GET or an invalid POST renders the form
sign_up(table, method, email) ==
    IF method = "POST" /\ SignupFormIsValid(table, email)
    THEN LET saved == SignupFormSave(table, email)
         IN  [users |-> saved.users, sent |-> saved.sent,
              response |-> Page("registration/sign_up_success.html")]
    ELSE [users |-> table, sent |-> << >>, response |-> Page("registration/sign_up.html")]

\* default_token_generator.check_token(user, token)
check_token(table, email, token) ==
    GetUser(table, email).exists /\ token = make_token(table, email)

\* the tokens a client can copy from the messages in the outbox
MailedTokens == {mailoutbox[i].token : i \in 1 .. Len(mailoutbox)}

NoSuRequest ==
    [op |-> "none", method |-> "", email |-> "", token |-> NoToken, password |-> "",
     before |-> [e \in SuEmails |-> Absent], outbox_before |-> 0,
     session_before |-> NoToken, response |-> NoResponse]

\* what every request of the flow records
SuRequest(op, method, email, token, password, response) ==
    [op |-> op, method |-> method, email |-> email, token |-> token,
     password |-> password, before |-> users, outbox_before |-> Len(mailoutbox),
     session_before |-> suSession, response |-> response]

\* client.get / client.post(reverse('sign_up'), {'email': email, ...})
SignUpRequest(method, email) ==
    LET r == sign_up(users, method, email)
    IN  /\ users' = r.users
        /\ mailoutbox' = mailoutbox \o r.sent
        /\ suLast' = SuRequest("sign_up", method, email, NoToken, "", r.response)
        /\ UNCHANGED <<suSession, suVisited>>
        /\ UNCHANGED suFrame

\* client.get(confirm_url, follow=True): a valid token is kept in the
\* session, the user becomes confirmed and the set-password form is shown;
\* any other token gets the page that says the link was invalid
VisitConfirmLink(email, token) ==
    /\ IF check_token(users, email, token)
       THEN /\ suSession' = token
            /\ users' = [users EXCEPT ![email].email_confirmed = TRUE]
            /\ suVisited' = suVisited \cup {email}
            /\ suLast' = SuRequest("visit", "GET", email, token, "",
                                   Page("Change my password"))
       ELSE /\ UNCHANGED <<suSession, users, suVisited>>
            /\ suLast' = SuRequest("visit", "GET", email, token, "",
                                   Page("The password reset link was invalid"))
    /\ UNCHANGED mailoutbox
    /\ UNCHANGED suFrame

\* client.post(<set-password url>, {'new_password1': p1, 'new_password2': p2},
\* follow=True): with a valid token in the session and matching passwords
\* the password is set, the token leaves the session and the welcome email
\* is sent
SetPasswordPost(email, p1, p2) ==
    /\ IF check_token(users, email, suSession)
       THEN IF p1 = p2
            THEN /\ users' = [users EXCEPT ![email].password = p1]
                 /\ mailoutbox' = Append(mailoutbox,
                        [subject |-> "Welcome!", to |-> email, token |-> NoToken])
                 /\ suSession' = NoToken
                 /\ suLast' = SuRequest("set_password", "POST", email, suSession, p1,
                                        Page("Your password has been set"))
            ELSE /\ UNCHANGED <<users, mailoutbox, suSession>>
                 /\ suLast' = SuRequest("set_password", "POST", email, suSession, "",
                                        Page("Change my password"))
       ELSE /\ UNCHANGED <<users, mailoutbox, suSession>>
            /\ suLast' = SuRequest("set_password", "POST", email, suSession, "",
                                   Page("The password reset link was invalid"))
    /\ UNCHANGED suVisited
    /\ UNCHANGED suFrame

\* client.post(reverse('login'), {'username': email, 'password': password},
\* follow=True)
LoginPost(email, password) ==
    LET u == GetUser(users, email)
        ok == u.exists /\ u.is_active /\ u.password # "" /\ u.password = password
    IN  /\ suLast' = SuRequest("login", "POST", email, NoToken, password,
                               IF ok THEN Page("A Witness Server") ELSE Page("login"))
        /\ UNCHANGED <<users, mailoutbox, suSession, suVisited>>
        /\ UNCHANGED suFrame

\* the doctest's fixtures: an empty database, a new client, an empty outbox
SuInit ==
    /\ users = [e \in SuEmails |-> Absent]
    /\ mailoutbox = << >>
    /\ suSession = NoToken
    /\ suVisited = {}
    /\ suLast = NoSuRequest

\* the sign-up state of a run that makes no sign-up request
SuIdle ==
    /\ suSession = NoToken
    /\ suVisited = {}
    /\ suLast = NoSuRequest

SuNext ==
    \/ \E method \in {"GET", "POST"}, email \in SuEmails \cup {Malformed} :
           SignUpRequest(method, email)
    \/ \E email \in SuEmails, token \in MailedTokens \cup {WrongToken} :
           VisitConfirmLink(email, token)
    \/ \E email \in SuEmails, p1, p2 \in Passwords : SetPasswordPost(email, p1, p2)
    \/ \E email \in SuEmails, password \in Passwords : LoginPost(email, password)

(***************************************************************************)
(* Account edit: views.py account                                          *)
(***************************************************************************)

\* the users of the account model, made by the user factory
AcUsers == {"user0", "user1"}
AcEmails == {"user0@example.com", "user1@example.com", "new_email@example.com"}
FirstNames == {"First", "New First"}
LastNames == {"Last", "New Last"}

\* request.POST of a POST that carries no field: it is falsy, so the form
\* is built from None and is unbound
EmptyPost == [email |-> "", first_name |-> "", last_name |-> ""]
\* what a client may post to the account view
AccountPosts ==
    [email : AcEmails \cup {Malformed}, first_name : FirstNames, last_name : LastNames]
        \cup {EmptyPost}

login_url == "/login/"

\* UserForm.is_valid: the form is bound, the address is well-formed and no
\* other user has it
UserFormIsValid(table, user, data) ==
    /\ data # EmptyPost
    /\ data.email # Malformed
    /\ \A other \in DOMAIN table \ {user} : table[other].email # data.email

\* UserForm.save: the instance's fields are set to the cleaned data and the
\* row is written
UserFormSave(table, user, data) == [table EXCEPT ![user] = data]

\* render(request, 'account.html', {'form': form}): the page shows the
\* form's values, and its errors when it has any
AccountPage(form, errors) ==
    [status |-> 200, body |-> "account.html", location |-> "",
     form |-> form, errors |-> errors]

\* what @login_required answers a request without a logged-in user
RedirectToLogin ==
    [status |-> 302, body |-> "", location |-> login_url,
     form |-> EmptyPost, errors |-> FALSE]

\* account saving the form of a POST without asking whether it is valid
account_save_unchecked(table, user, method, data) ==
    IF user = Anonymous
    THEN [profiles |-> table, response |-> RedirectToLogin]
    ELSE IF method = "POST" /\ data # EmptyPost
    THEN [profiles |-> UserFormSave(table, user, data),
          response |-> AccountPage(data, ~UserFormIsValid(table, user, data))]
    ELSE [profiles |-> table, response |-> AccountPage(table[user], FALSE)]

\* account never saving the form
account_no_save(table, user, method, data) ==
    IF user = Anonymous
    THEN [profiles |-> table, response |-> RedirectToLogin]
    ELSE IF method = "POST" /\ data # EmptyPost
    THEN [profiles |-> table,
          response |-> AccountPage(data, ~UserFormIsValid(table, user, data))]
    ELSE [profiles |-> table, response |-> AccountPage(table[user], FALSE)]

\* the view account, behind @login_required: the form is built from
\* request.POST or None and the requesting user's row; a valid POST saves it;
\* the page is rendered with the form in every case
account(table, user, method, data) ==
    IF user = Anonymous
    THEN [profiles |-> table, response |-> RedirectToLogin]
    ELSE IF method = "POST" /\ data # EmptyPost
    THEN IF UserFormIsValid(table, user, data)
         THEN [profiles |-> UserFormSave(table, user, data),
               response |-> AccountPage(data, FALSE)]
         ELSE [profiles |-> table, response |-> AccountPage(data, TRUE)]
    ELSE [profiles |-> table, response |-> AccountPage(table[user], FALSE)]

NoAcRequest ==
    [method |-> "none", user |-> Anonymous, data |-> EmptyPost,
     before |-> [u \in AcUsers |-> EmptyPost], response |-> RedirectToLogin]

\* client.get(account_url, as_user=user) / client.post(account_url, data,
\* as_user=user), and the same without as_user
AccountRequest(user, method, data) ==
    LET r == account(profiles, user, method, data)
    IN  /\ profiles' = r.profiles
        /\ acLast' = [method |-> method, user |-> user, data |-> data,
                      before |-> profiles, response |-> r.response]
        /\ UNCHANGED acFrame

\* the user fixtures: two users, each with an address of its own
AcInit ==
    /\ profiles = [u \in AcUsers |->
                     [email |-> IF u = "user0" THEN "user0@example.com" ELSE "user1@example.com",
                      first_name |-> "First", last_name |-> "Last"]]
    /\ acLast = NoAcRequest

\* the account state of a run that makes no request to the account view
AcIdle ==
    /\ profiles = [u \in AcUsers |-> EmptyPost]
    /\ acLast = NoAcRequest

AcNext ==
    \E user \in AcUsers \cup {Anonymous}, method \in {"GET", "POST"} :
        \E data \in IF method = "GET" THEN {EmptyPost} ELSE AccountPosts :
            AccountRequest(user, method, data)

\* the addresses posted to sign-up next to the account view
FormsEmails == {"user@example.edu", Malformed}

\* the two views that save a form: sign-up and account edit
FormsNext ==
    \/ \E method \in {"GET", "POST"}, email \in FormsEmails :
           SignUpRequest(method, email)
    \/ AcNext

(***************************************************************************)
(* Specifications                                                          *)
(***************************************************************************)

InitPw == PwInit /\ TokIdle /\ CliInit /\ QInit /\ SuIdle /\ AcIdle

SpecPw == InitPw /\ [][PwNext]_vars

InitTok == TokInit /\ DbIdle /\ PwIdle /\ CliInit /\ QInit /\ SuIdle /\ AcIdle

SpecTok == InitTok /\ [][TokNext]_vars

SpecTokConc == InitTok /\ [][TokConcNext]_vars

InitCli == CliInit /\ DbIdle /\ PwIdle /\ TokIdle /\ QInit /\ SuIdle /\ AcIdle

SpecCli == InitCli /\ [][CliNext]_vars

InitQ == QInit /\ DbIdle /\ PwIdle /\ TokIdle /\ CliInit /\ SuIdle /\ AcIdle

SpecQ == InitQ /\ [][QNext]_vars

InitSu == SuInit /\ PwIdle /\ TokIdle /\ CliInit /\ QInit /\ AcIdle

SpecSu == InitSu /\ [][SuNext]_vars

InitForms == SuInit /\ AcInit /\ PwIdle /\ TokIdle /\ CliInit /\ QInit

SpecForms == InitForms /\ [][FormsNext]_vars

(***************************************************************************)
(* Properties                                                              *)
(***************************************************************************)

\* C1: the final responses (redirects followed) of any two password-reset
\* POSTs that differ only in the account state of the submitted address
\* (confirmed, unconfirmed, deactivated, nonexistent) are the same response
C1_SameResponse == \A a, b \in pwSeen : a.response = b.response

C1_Witness ==
    {a.state : a \in pwSeen} = {"confirmed", "unconfirmed", "deactivated", "nonexistent"}

\* C2: a password-reset POST with the address of an existing user whose
\* email_confirmed is false sends exactly one message, the confirmation
\* message, and never reaches the wrapped PasswordResetView
C2_UnconfirmedGetsConfirmation ==
    (PwPosted /\ pwReq.user.exists /\ ~pwReq.user.email_confirmed)
        => /\ pwSent = << send_confirmation_email(users, pwReq.email) >>
           /\ ~pwReached
           /\ Len(mailoutbox) >= 1
           /\ mailoutbox[Len(mailoutbox)] = send_confirmation_email(users, pwReq.email)

C2_Witness ==
    /\ PwPosted /\ pwReq.user.exists /\ ~pwReq.user.email_confirmed
    /\ pwReq.user.is_active
    /\ Len(mailoutbox) >= 2

\* C3: a password-reset POST with the address of a deactivated user
\* (is_active false, whatever its email_confirmed flag) or with an address
\* no user has sends no message: the outbox is unchanged by the request
C3_NoMailForDeactivatedOrMissing ==
    (PwPosted /\ (~pwReq.user.exists \/ ~pwReq.user.is_active)) => pwSent = << >>

\* the last request handled alone was a POST by an authenticated user
TokPosted == tokLast.method = "POST" /\ tokLast.user \in TokUsers

\* C4: for every authenticated POST to token-reset by user u, the token in
\* the response differs from the token u held just before the call and is
\* the token persisted for u after the call, after any sequence of resets
C4_NewTokenReturned ==
    TokPosted =>
        /\ tokLast.response.status = 200
        /\ tokLast.response.token # KeyOf(tokLast.before, tokLast.user)
        /\ tokLast.response.token = KeyOf(tokens, tokLast.user)

C4_Witness ==
    /\ TokPosted
    /\ KeyOf(tokLast.before, tokLast.user) # NoKey
    /\ KeyOf(tokLast.before, tokLast.user) # KeyOf(tokens, tokLast.user)
    /\ tokLast.response.token = KeyOf(tokens, tokLast.user)

\* no token-reset request of user u is between its start and its response
TokQuiet(u) ==
    \A w \in DOMAIN tokReqs : tokReqs[w].user = u => tokReqs[w].pc \in {"idle", "done"}

\* C5: in every reachable state each user has exactly one token, also
\* between the steps of interleaved token resets, and once the requests of
\* a user have finished the persisted token is the one returned to the
\* request that completed last
C5_OneTokenLastCompletedWins ==
    \A u \in TokUsers :
        /\ Cardinality(TokensOf(tokens, u)) = 1
        /\ (TokQuiet(u) /\ tokLastResp[u] # NoKey) => KeyOf(tokens, u) = tokLastResp[u]

\* C6: token-reset answers an unauthenticated POST with 401 and an
\* authenticated GET with 405, changing no token in either case; only an
\* authenticated POST is answered 200 and changes a token, and it changes
\* the token of the requesting user alone
C6_RejectsAndFrames ==
    /\ (tokLast.method = "POST" /\ tokLast.user = Anonymous)
           => tokLast.response.status = 401 /\ tokens = tokLast.before
    /\ (tokLast.method = "GET" /\ tokLast.user \in TokUsers)
           => tokLast.response.status = 405 /\ tokens = tokLast.before
    /\ (tokLast.method # "none")
           => /\ tokLast.response.status = 200 <=> TokPosted
              /\ tokens # tokLast.before <=> TokPosted
              /\ \A u \in TokUsers \ {tokLast.user} :
                     TokensOf(tokens, u) = TokensOf(tokLast.before, u)

C6_Witness ==
    /\ tokLast.method = "GET" /\ tokLast.user \in TokUsers
    /\ tokLast.response.status = 405
    /\ tokens = tokLast.before

\* C7: after any request made with as_user set, the client's session cookie
\* is what it was before the request: the previous value if there was one,
\* absent if there was none, whether the request returned or raised
C7_CookieRestored ==
    (cliLast.made /\ cliLast.as_user # NoUser) => cookie = cliLast.cookie_before

\* C8: a request with as_user=B is handled as B; the next request without
\* as_user is handled as the identity the client had before (anonymous if it
\* had no session); a following request with as_user=C is handled as C
C8_IdentityRestored ==
    /\ (cliLast.made /\ cliLast.as_user # NoUser)
           => cliLast.handled_as = cliLast.as_user
    /\ (cliLast.made /\ cliLast.as_user = NoUser
           /\ cliPrev.made /\ cliPrev.as_user # NoUser)
           => cliLast.handled_as = cliPrev.identity_before

\* the number of statements the block executed on the watched connection
\* whose leading keyword, lower-cased, is kw
RECURSIVE Issued(_, _, _)
Issued(log, db, kw) ==
    IF log = << >> THEN 0
    ELSE Issued(Tail(log), db, kw)
         + (IF Head(log).conn = db /\ query_type(Head(log).sql) = kw THEN 1 ELSE 0)

\* the block executed, on the watched connection, only select and update
\* statements and statements that are not counted
OnlySelectUpdate ==
    \A i \in 1 .. Len(issued) :
        issued[i].conn = qDb
            => query_type(issued[i].sql) \in {KwSelect, KwUpdate} \cup Uncounted

\* C9: for a block that issues exactly N select and M update statements on
\* the named connection (N, M >= 0, plus any savepoint/release/set/show
\* statements), asserting (select=N, update=M) passes, and asserting any
\* other pair fails with a message listing the expected and actual counts
C9_CountsDecideOutcome ==
    (qPc = "after" /\ DOMAIN qExpected = {KwSelect, KwUpdate} /\ OnlySelectUpdate)
        => /\ qOutcome.passed
                <=> /\ qExpected[KwSelect] = Issued(issued, qDb, KwSelect)
                    /\ qExpected[KwUpdate] = Issued(issued, qDb, KwUpdate)
           /\ ~qOutcome.passed
                => /\ qOutcome.msg.expected = qExpected
                   /\ qOutcome.msg.got = QueryCounts(captured)

\* the stage of the sign-up flow a row is in
Stage(row) ==
    IF ~row.exists THEN "anonymous"
    ELSE IF ~row.email_confirmed THEN "pending"
    ELSE "confirmed"

\* the messages with that subject sent to an address
MailsTo(email, subject) ==
    {i \in 1 .. Len(mailoutbox) :
        mailoutbox[i].to = email /\ mailoutbox[i].subject = subject}

\* C10: the sign-up flow moves a user only along anonymous -> pending ->
\* confirmed; a valid sign-up POST creates one unconfirmed user and sends
\* exactly one confirmation email; a password is set only after the emailed
\* link was visited; a link with a wrong token is rejected as invalid and
\* changes nothing; the link is single-use; setting the password sends the
\* welcome email exactly once (two messages for the user in the end), and
\* login with the new password then succeeds
C10_SignUpFlow ==
    /\ \A e \in SuEmails :
           <<Stage(suLast.before[e]), Stage(users[e])>> \in
               {<<"anonymous", "anonymous">>, <<"anonymous", "pending">>,
                <<"pending", "pending">>, <<"pending", "confirmed">>,
                <<"confirmed", "confirmed">>}
    /\ (suLast.op = "sign_up" /\ suLast.method = "POST"
            /\ SignupFormIsValid(suLast.before, suLast.email))
           => /\ users = [suLast.before EXCEPT ![suLast.email] = NewUser]
              /\ Len(mailoutbox) = suLast.outbox_before + 1
              /\ mailoutbox[Len(mailoutbox)].to = suLast.email
              /\ mailoutbox[Len(mailoutbox)].subject = "Please confirm your email"
              /\ suLast.response = Page("registration/sign_up_success.html")
    /\ \A e \in SuEmails : users[e].password # "" => e \in suVisited
    /\ (suLast.op = "visit" /\ suLast.token = WrongToken)
           => /\ suLast.response = Page("The password reset link was invalid")
              /\ users = suLast.before
              /\ Len(mailoutbox) = suLast.outbox_before
              /\ suSession = suLast.session_before
    /\ (suLast.op = "visit" /\ suLast.before[suLast.email].password # "")
           => suLast.response = Page("The password reset link was invalid")
    /\ \A e \in SuEmails :
           /\ Cardinality(MailsTo(e, "Welcome!")) = (IF users[e].password # "" THEN 1 ELSE 0)
           /\ Cardinality(MailsTo(e, "Please confirm your email"))
                  = (IF users[e].exists THEN 1 ELSE 0)
    /\ (suLast.op = "login" /\ users[suLast.email].password # ""
            /\ suLast.password = users[suLast.email].password)
           => suLast.response = Page("A Witness Server")

\* the doctest's end: signed up, confirmed, password set, logged in, and
\* two messages in the outbox for the user
C10_Witness ==
    /\ suLast.op = "login"
    /\ suLast.response = Page("A Witness Server")
    /\ Stage(users[suLast.email]) = "confirmed"
    /\ Cardinality(MailsTo(suLast.email, "Welcome!")) = 1
    /\ Cardinality(MailsTo(suLast.email, "Please confirm your email")) = 1
    /\ \E e \in SuEmails : Stage(users[e]) = "pending"

\* an invalid POST to sign-up was the last request of the sign-up view
SignUpRejected ==
    /\ suLast.op = "sign_up"
    /\ suLast.method = "POST"
    /\ ~SignupFormIsValid(suLast.before, suLast.email)

\* a POST by a logged-in user whose form did not validate was the last
\* request to the account view
AccountRejected ==
    /\ acLast.method = "POST"
    /\ acLast.user \in AcUsers
    /\ ~UserFormIsValid(acLast.before, acLast.user, acLast.data)

\* C11: a form that fails validation persists nothing.  After an invalid
\* sign-up POST the user table is what it was and no mail has been sent, and
\* the response is the sign-up form with status 200, not the success page.
\* After an invalid account POST every stored field of the requesting user
\* (and of every other user) is what it was, and the response is the account
\* form with status 200, showing the errors of a form that was bound.
C11_InvalidFormPersistsNothing ==
    /\ SignUpRejected =>
           /\ users = suLast.before
           /\ Len(mailoutbox) = suLast.outbox_before
           /\ suLast.response = Page("registration/sign_up.html")
           /\ suLast.response.status = 200
    /\ AccountRejected =>
           /\ profiles = acLast.before
           /\ acLast.response.status = 200
           /\ acLast.response.body = "account.html"
           /\ acLast.data # EmptyPost => acLast.response.errors

\* an invalid sign-up POST for an address that is already taken, and an
\* invalid account POST carrying another user's address, by a user whose row
\* an earlier valid POST had changed
C11_Witness ==
    /\ SignUpRejected
    /\ suLast.email # Malformed
    /\ AccountRejected
    /\ acLast.data.email \in AcEmails
    /\ acLast.data.first_name # acLast.before[acLast.user].first_name
    /\ acLast.before[acLast.user].email = "new_email@example.com"

\* C12: account edit requires authentication and touches only the
\* requester's row.  A valid POST by a logged-in user u leaves u's stored
\* email, first name and last name equal to the submitted values and every
\* other user's row as it was, and answers 200 with the form showing the new
\* values; a GET leaves every row as it was; a GET or POST without a
\* logged-in user is redirected to login and leaves every row as it was.
C12_AccountEditFrame ==
    /\ (/\ acLast.method = "POST"
        /\ acLast.user \in AcUsers
        /\ UserFormIsValid(acLast.before, acLast.user, acLast.data)) =>
           /\ profiles[acLast.user] = acLast.data
           /\ \A other \in AcUsers \ {acLast.user} :
                  profiles[other] = acLast.before[other]
           /\ acLast.response = AccountPage(acLast.data, FALSE)
    /\ (acLast.method = "GET" /\ acLast.user \in AcUsers) =>
           /\ profiles = acLast.before
           /\ acLast.response = AccountPage(acLast.before[acLast.user], FALSE)
    /\ (acLast.method \in {"GET", "POST"} /\ acLast.user = Anonymous) =>
           /\ profiles = acLast.before
           /\ acLast.response.status = 302
           /\ acLast.response.location = login_url

\* the doctest's POST: a logged-in user has changed all three of its fields,
\* while the other user's row differs from it
C12_Witness ==
    /\ acLast.method = "POST"
    /\ acLast.user \in AcUsers
    /\ UserFormIsValid(acLast.before, acLast.user, acLast.data)
    /\ acLast.data = [email |-> "new_email@example.com",
                      first_name |-> "New First", last_name |-> "New Last"]
    /\ acLast.before[acLast.user].email # "new_email@example.com"
    /\ acLast.before[acLast.user].first_name = "First"
    /\ acLast.before[acLast.user].last_name = "Last"
    /\ profiles[acLast.user] = acLast.data

====
